---- MODULE Spec2Model ----
(***************************************************************************)
(* A model of src/ai.py: the Streamlit "Audio & Text Summarizer" page.     *)
(*                                                                         *)
(* Text is modelled as a sequence of one-character strings, so that        *)
(* splitting, joining, trimming and sentence segmentation are computed     *)
(* character by character, the way the Python built-ins compute them.      *)
(*                                                                         *)
(* Three specifications are defined over the same variables:               *)
(*   ChunkSpec      chunk_text applied to every small text and max_tokens  *)
(*   SummarizeSpec  summarize_text / transcribe_audio, one external call   *)
(*                  per step, applied to drawn arguments                   *)
(*   Spec           the page: one script run after the other, driven by    *)
(*                  the user's widgets                                     *)
(***************************************************************************)
EXTENDS Integers, Sequences, FiniteSets, TLC

VARIABLES
    \* ---- chunk_text applied on its own (ChunkSpec)
    text,                \* argument text
    max_tokens,          \* argument max_tokens
    chunks,              \* the returned list
    chunk_pc,            \* "call" before the call, "ret" after it
    \* ---- module-level objects of src/ai.py
    summarizer,          \* TRUE iff load_models returned a summarizer
    whisper_model,       \* TRUE iff load_models returned a whisper model
    MAIL_SENDER_EMAIL,   \* the sender address, or None
    MAIL_SENDER_PASS,    \* the sender password, or None
    \* ---- the frame of a running summarize_text / transcribe_audio
    pc,                  \* position of the running script or function
    s_text,              \* summarize_text: argument text
    bullet_style,        \* summarize_text: argument bullet_style
    text_chunks,         \* summarize_text: chunk_text(text, max_tokens=...)
    summary_chunks,      \* summarize_text: the partial summaries so far
    calls,               \* every external model call made, in order
    ret,                 \* how the function left: [kind, value]
    \* ---- the page: widgets, session state, file system, mail transport
    secrets,             \* the keys present in st.secrets
    uploaded_file,       \* the file_uploader widget
    text_input,          \* the "Or Paste Text Here" widget
    event,               \* what the user did to trigger this script run
    transcription,       \* st.session_state.transcription
    summary,             \* st.session_state.summary
    audio_temp_dir,      \* st.session_state.audio_temp_dir
    dirs,                \* temporary directories that exist on disk
    made,                \* number of directories tempfile.mkdtemp has made
    shown,               \* the buttons the latest script run rendered
    smtp,                \* this run's SMTP connections: what each one did
    email_ret,           \* this run's send_email calls: what each returned
    runs                 \* number of script runs started

chunkVars == <<text, max_tokens, chunks, chunk_pc>>
moduleVars == <<summarizer, whisper_model, MAIL_SENDER_EMAIL, MAIL_SENDER_PASS>>
frameVars == <<pc, s_text, bullet_style, text_chunks, summary_chunks, calls, ret>>
pageVars == <<secrets, uploaded_file, text_input, event, transcription,
              summary, audio_temp_dir, dirs, made, shown, smtp, email_ret,
              runs>>
frameVars_but_pc == <<s_text, bullet_style, text_chunks, summary_chunks, calls, ret>>
vars == <<chunkVars, moduleVars, frameVars, pageVars>>

None == "None"
\* st.session_state.audio_temp_dir = None; directories are numbered from 1
NoDir == 0
\* ret before the function has left
NoRet == [kind |-> "none", value |-> <<>>]
Return(v) == [kind |-> "return", value |-> v]
Raise(e) == [kind |-> "raise", value |-> e]

(***************************************************************************)
(* Bounds of the model.                                                    *)
(***************************************************************************)
\* longest text (in characters) ChunkSpec enumerates
MaxTextLen == 5
\* largest max_tokens ChunkSpec enumerates
MaxTokensArg == 3
\* the chunk size summarize_text passes to chunk_text.  The code passes 800
\* (src/ai.py:122); the model scales it down so that texts of a few words
\* span several chunks.
ChunkTokens == 2
\* number of script runs the page specification follows after the first load
MaxRuns == 4

(***************************************************************************)
(* Python string built-ins, on sequences of characters.                    *)
(***************************************************************************)
SP == " "
NL == "\n"
Letters == {"a", "b"}
Whitespace == {SP, NL}

\* str.split() with no argument: the maximal runs of non-whitespace.
RECURSIVE SplitLoop(_, _, _, _)
SplitLoop(s, i, cur, words) ==
    IF i > Len(s)
    THEN IF cur # <<>> THEN Append(words, cur) ELSE words
    ELSE IF s[i] \in Whitespace
         THEN SplitLoop(s, i + 1, <<>>,
                        IF cur # <<>> THEN Append(words, cur) ELSE words)
         ELSE SplitLoop(s, i + 1, Append(cur, s[i]), words)

split(s) == SplitLoop(s, 1, <<>>, <<>>)

\* sep.join(parts)
RECURSIVE join(_, _)
join(sep, parts) ==
    IF parts = <<>> THEN <<>>
    ELSE IF Len(parts) = 1 THEN parts[1]
    ELSE parts[1] \o sep \o join(sep, Tail(parts))

\* str.strip(): leading and trailing whitespace removed.
RECURSIVE lstrip(_)
lstrip(s) ==
    IF s # <<>> /\ s[1] \in Whitespace THEN lstrip(Tail(s)) ELSE s

RECURSIVE rstrip(_)
rstrip(s) ==
    IF s # <<>> /\ s[Len(s)] \in Whitespace
    THEN rstrip(SubSeq(s, 1, Len(s) - 1)) ELSE s

strip(s) == rstrip(lstrip(s))

(***************************************************************************)
(* chunk_text (src/ai.py:96-111).                                          *)
(***************************************************************************)
\* mutant: the comparison of line 105 written ">"
chunk_full_gt(tokens, maxTokens) == tokens > maxTokens

\* line 105: if tokens >= max_tokens
chunk_full(tokens, maxTokens) == tokens >= maxTokens

\* mutant: the trailing partial chunk of lines 109-110 is forgotten
chunk_tail_dropped(chunkList, current_chunk_words) == chunkList

\* mutant: the trailing chunk is appended even when it is empty
chunk_tail_always(chunkList, current_chunk_words) ==
    Append(chunkList, join(<<SP>>, current_chunk_words))

\* lines 109-110: if current_chunk_words: chunks.append(" ".join(...))
chunk_tail(chunkList, current_chunk_words) ==
    IF current_chunk_words # <<>>
    THEN Append(chunkList, join(<<SP>>, current_chunk_words))
    ELSE chunkList

\* lines 102-108: the loop over words, from word k on
RECURSIVE chunk_loop(_, _, _, _, _, _)
chunk_loop(words, k, chunkList, current_chunk_words, tokens, maxTokens) ==
    IF k > Len(words)
    THEN [chunks |-> chunkList, current_chunk_words |-> current_chunk_words]
    ELSE LET t == tokens + 1
             cur == Append(current_chunk_words, words[k])
         IN  IF chunk_full(t, maxTokens)
             THEN chunk_loop(words, k + 1,
                             Append(chunkList, join(<<SP>>, cur)), <<>>, 0,
                             maxTokens)
             ELSE chunk_loop(words, k + 1, chunkList, cur, t, maxTokens)

chunk_text(t, maxTokens) ==
    LET words == split(t)
        r == chunk_loop(words, 1, <<>>, <<>>, 0, maxTokens)
    IN  chunk_tail(r.chunks, r.current_chunk_words)

(***************************************************************************)
(* ChunkSpec: chunk_text called once on a drawn text and max_tokens.       *)
(***************************************************************************)
Alphabet == Letters \cup Whitespace

RECURSIVE StringsUpTo(_)
StringsUpTo(n) ==
    IF n = 0 THEN {<<>>}
    ELSE LET shorter == StringsUpTo(n - 1)
         IN  shorter \cup {Append(s, c) : s \in shorter, c \in Alphabet}

ParkedModule ==
    /\ summarizer = FALSE
    /\ whisper_model = FALSE
    /\ MAIL_SENDER_EMAIL = None
    /\ MAIL_SENDER_PASS = None

ParkedFrame ==
    /\ pc = "off"
    /\ s_text = <<>>
    /\ bullet_style = FALSE
    /\ text_chunks = <<>>
    /\ summary_chunks = <<>>
    /\ calls = <<>>
    /\ ret = NoRet

ParkedPage ==
    /\ secrets = {}
    /\ uploaded_file = None
    /\ text_input = <<>>
    /\ event = None
    /\ transcription = <<>>
    /\ summary = <<>>
    /\ audio_temp_dir = NoDir
    /\ dirs = {}
    /\ made = 0
    /\ shown = {}
    /\ smtp = <<>>
    /\ email_ret = <<>>
    /\ runs = 0

ChunkInit ==
    /\ text \in StringsUpTo(MaxTextLen)
    /\ max_tokens \in 1..MaxTokensArg
    /\ chunks = <<>>
    /\ chunk_pc = "call"
    /\ ParkedModule /\ ParkedFrame /\ ParkedPage

ChunkCall ==
    /\ chunk_pc = "call"
    /\ chunks' = chunk_text(text, max_tokens)
    /\ chunk_pc' = "ret"
    /\ UNCHANGED <<text, max_tokens, moduleVars, frameVars, pageVars>>

ChunkNext == ChunkCall

ChunkSpec == ChunkInit /\ [][ChunkNext]_vars

(***************************************************************************)
(* Reference notions the chunking claims are stated with.                  *)
(***************************************************************************)
\* whitespace normalisation, character by character: every run of
\* whitespace becomes one space, and none is left at either end
RECURSIVE Collapse(_, _)
Collapse(s, out) ==
    IF s = <<>> THEN out
    ELSE IF s[1] \in Whitespace
         THEN Collapse(Tail(s),
                       IF out # <<>> /\ out[Len(out)] # SP
                       THEN Append(out, SP) ELSE out)
         ELSE Collapse(Tail(s), Append(out, s[1]))

normalize_whitespace(s) ==
    LET c == Collapse(s, <<>>)
    IN  IF c # <<>> /\ c[Len(c)] = SP THEN SubSeq(c, 1, Len(c) - 1) ELSE c

\* number of words of a text: maximal runs of non-whitespace characters
WordCount(s) ==
    Cardinality({i \in 1..Len(s) :
        /\ s[i] \notin Whitespace
        /\ (i = 1 \/ s[i - 1] \in Whitespace)})

\* C1: joining the chunks of chunk_text(s, max_tokens) with single spaces
\* gives exactly the whitespace-normalised s, for every s and max_tokens >= 1.
C1_RoundTrip ==
    chunk_pc = "ret" => join(<<SP>>, chunks) = normalize_whitespace(text)

\* C1 witness: a text with irregular whitespace was cut into several chunks.
C1_Witness ==
    /\ chunk_pc = "ret"
    /\ Len(chunks) >= 2
    /\ text # normalize_whitespace(text)
    /\ WordCount(text) > Len(chunks)

\* C2: every chunk holds between 1 and max_tokens words, every chunk but the
\* last holds exactly max_tokens words, and a text without words yields the
\* empty sequence.
C2_ChunkSizes ==
    chunk_pc = "ret" =>
        /\ \A k \in 1..Len(chunks) :
              /\ WordCount(chunks[k]) >= 1
              /\ WordCount(chunks[k]) <= max_tokens
              /\ (k < Len(chunks) => WordCount(chunks[k]) = max_tokens)
        /\ (WordCount(text) = 0 => chunks = <<>>)

\* C2 witness: a full chunk followed by a shorter last one.
C2_Witness ==
    /\ chunk_pc = "ret"
    /\ max_tokens = 2
    /\ Len(chunks) = 2
    /\ WordCount(chunks[1]) = 2
    /\ WordCount(chunks[2]) = 1

\* C2, the other case: a whitespace-only text yielded no chunk.
C2_WitnessBlank ==
    /\ chunk_pc = "ret"
    /\ text # <<>>
    /\ WordCount(text) = 0
    /\ chunks = <<>>

\* C7 as claimed: whenever max_tokens >= the word count of the text,
\* chunk_text returns exactly one chunk, the whole normalised input.
C7_SingleChunkAnyText ==
    (chunk_pc = "ret" /\ max_tokens >= WordCount(text)) =>
        chunks = <<normalize_whitespace(text)>>

\* C7 amended: whenever the text holds at least one word and max_tokens >= its
\* word count, chunk_text returns exactly one chunk, the whole normalised
\* input; a text without words yields no chunk at all.
C7_SingleChunk ==
    (chunk_pc = "ret" /\ max_tokens >= WordCount(text)) =>
        IF WordCount(text) >= 1
        THEN chunks = <<normalize_whitespace(text)>>
        ELSE chunks = <<>>

\* C7 witness: a text of max_tokens words with irregular whitespace came back
\* as one chunk.
C7_Witness ==
    /\ chunk_pc = "ret"
    /\ WordCount(text) = max_tokens
    /\ max_tokens >= 2
    /\ text # normalize_whitespace(text)
    /\ Len(chunks) = 1

(***************************************************************************)
(* Model loading and the error strings of src/ai.py.                       *)
(***************************************************************************)
ErrorMarker == <<"[", "E", "R", "R", "O", "R", ":">>

ErrWhisperNotLoaded ==
    ErrorMarker \o <<" ", "W", "h", "i", "s", "p", "e", "r", " ", "m", "o",
                     "d", "e", "l", " ", "n", "o", "t", " ", "l", "o", "a",
                     "d", "e", "d", "]">>

ErrTranscriptionFailed ==
    ErrorMarker \o <<" ", "T", "r", "a", "n", "s", "c", "r", "i", "p", "t",
                     "i", "o", "n", " ", "f", "a", "i", "l", "e", "d", "]">>

ErrSummarizerNotLoaded ==
    ErrorMarker \o <<" ", "S", "u", "m", "m", "a", "r", "i", "z", "a", "t",
                     "i", "o", "n", " ", "m", "o", "d", "e", "l", " ", "n",
                     "o", "t", " ", "l", "o", "a", "d", "e", "d", "]">>

ErrSummarizationFailed ==
    ErrorMarker \o <<" ", "S", "u", "m", "m", "a", "r", "i", "z", "a", "t",
                     "i", "o", "n", " ", "f", "a", "i", "l", "e", "d", "]">>

\* load_models: both models, or (None, None) when loading either one raised
load_models(summarizerLoads, whisperLoads) ==
    IF summarizerLoads /\ whisperLoads
    THEN [summarizer |-> TRUE, whisper_model |-> TRUE]
    ELSE [summarizer |-> FALSE, whisper_model |-> FALSE]

\* what an external call does: it returns a value or raises an exception
Ok(v) == [kind |-> "ok", value |-> v]
Raises(e) == [kind |-> "raise", value |-> e]
\* str(e) of the exceptions the external calls raise
Exceptions == {<<"e">>}

(***************************************************************************)
(* transcribe_audio (src/ai.py:82-94).                                     *)
(***************************************************************************)
\* mutant: no except clause, the exception leaves the function
transcribe_except_propagates(e) == Raise(e)

\* lines 91-94: except Exception as e: ... return "[ERROR: ...]"
transcribe_except(e) == Return(ErrTranscriptionFailed)

\* the whole function, given what whisper_model.transcribe does when called:
\* what it hands back, and the external calls it made
transcribe_audio(audio_path, out) ==
    IF ~whisper_model
    THEN [ret |-> Return(ErrWhisperNotLoaded), calls |-> <<>>]
    ELSE [ret |-> IF out.kind = "raise"
                  THEN transcribe_except(out.value)
                  ELSE Return(out.value),
          calls |-> <<[model |-> "whisper", arg |-> audio_path, out |-> out]>>]

(***************************************************************************)
(* summarize_text (src/ai.py:113-142).                                     *)
(***************************************************************************)
Terminators == {".", "!", "?"}
\* the marker character of line 139 (U+2022), written in ASCII here
Bullet == "*"
MinSentenceLen == 20

\* first index from i on that holds no space (Len(s) + 1 if there is none)
RECURSIVE SkipSpaces(_, _)
SkipSpaces(s, i) ==
    IF i <= Len(s) /\ s[i] = SP THEN SkipSpaces(s, i + 1) ELSE i

\* re.split(r'(?<=[.!?]) +', s): scanning from the left, a delimiter is a
\* maximal run of spaces that starts right after a '.', '!' or '?'
RECURSIVE re_split_loop(_, _, _, _)
re_split_loop(s, i, cur, out) ==
    IF i > Len(s) THEN Append(out, cur)
    ELSE IF i > 1 /\ s[i - 1] \in Terminators /\ s[i] = SP
         THEN re_split_loop(s, SkipSpaces(s, i), <<>>, Append(out, cur))
         ELSE re_split_loop(s, i + 1, Append(cur, s[i]), out)

re_split(s) == re_split_loop(s, 1, <<>>, <<>>)

\* mutant: the filter of line 139 written ">="
keep_sentence_ge(s) == Len(strip(s)) >= MinSentenceLen

\* line 139: if len(s.strip()) > 20
keep_sentence(s) == Len(strip(s)) > MinSentenceLen

\* lines 137-139
format_bullets(combined_summary) ==
    LET sentences == re_split(combined_summary)
        kept == SelectSeq(sentences, keep_sentence)
    IN  join(<<NL>>, [k \in 1..Len(kept) |-> <<Bullet, SP>> \o strip(kept[k])])

\* mutant: the bullet formatting is applied whatever bullet_style says
summarize_finish_bullets(partials, bulletStyle) ==
    format_bullets(join(<<SP>>, partials))

\* lines 134-140: join, optional bullet formatting, return
summarize_finish(partials, bulletStyle) ==
    LET combined_summary == join(<<SP>>, partials)
    IN  IF bulletStyle THEN format_bullets(combined_summary)
        ELSE combined_summary

\* mutant: no except clause, the exception leaves the function
summarize_except_propagates(e) == Raise(e)

\* lines 141-142: return f"[ERROR: Summarization failed] {e}"
summarize_except(e) == Return(ErrSummarizationFailed \o <<SP>> \o e)

\* mutant: the loop stops one chunk early
loop_done_early(chunkList, n) == n >= Len(chunkList) - 1

\* line 123: the for loop is over once every chunk was taken
loop_done(chunkList, n) == n >= Len(chunkList)

\* line 118-122: the guard, then the chunking
SummarizeEnter ==
    /\ pc = "summarize_text"
    /\ IF ~summarizer
       THEN /\ ret' = Return(ErrSummarizerNotLoaded)
            /\ pc' = "summarize_returned"
            /\ UNCHANGED <<text_chunks, summary_chunks>>
       ELSE /\ text_chunks' = chunk_text(s_text, ChunkTokens)
            /\ summary_chunks' = <<>>
            /\ pc' = "summarize_loop"
            /\ UNCHANGED ret
    /\ UNCHANGED <<s_text, bullet_style, calls>>
    /\ UNCHANGED <<chunkVars, moduleVars, pageVars>>

\* lines 123-133: one iteration, one blocking call of the summarizer, which
\* returns one of `outcomes`
SummarizerCall(outcomes) ==
    /\ pc = "summarize_loop"
    /\ ~loop_done(text_chunks, Len(summary_chunks))
    /\ \E out \in outcomes :
          /\ calls' = Append(calls,
                 [model |-> "summarizer",
                  arg |-> text_chunks[Len(summary_chunks) + 1],
                  out |-> out])
          /\ IF out.kind = "raise"
             THEN /\ ret' = summarize_except(out.value)
                  /\ pc' = "summarize_returned"
                  /\ UNCHANGED summary_chunks
             ELSE /\ summary_chunks' = Append(summary_chunks, out.value)
                  /\ UNCHANGED <<pc, ret>>
    /\ UNCHANGED <<s_text, bullet_style, text_chunks>>
    /\ UNCHANGED <<chunkVars, moduleVars, pageVars>>

\* lines 134-140
SummarizeReturn ==
    /\ pc = "summarize_loop"
    /\ loop_done(text_chunks, Len(summary_chunks))
    /\ ret' = Return(summarize_finish(summary_chunks, bullet_style))
    /\ pc' = "summarize_returned"
    /\ UNCHANGED <<s_text, bullet_style, text_chunks, summary_chunks, calls>>
    /\ UNCHANGED <<chunkVars, moduleVars, pageVars>>

(***************************************************************************)
(* SummarizeSpec: summarize_text or transcribe_audio called once, on drawn *)
(* arguments, with the models loaded or not.                               *)
(***************************************************************************)
RECURSIVE Rep(_, _)
Rep(c, n) == IF n = 0 THEN <<>> ELSE <<c>> \o Rep(c, n - 1)

\* a sentence of exactly n characters
Sentence(n) == Rep("a", n - 1) \o <<".">>

\* a text of n one-letter words, each different from its neighbours
WordLetters == <<"a", "b", "c", "d", "e", "f", "g", "h", "i", "j">>

RECURSIVE Words(_)
Words(n) ==
    IF n = 0 THEN <<>>
    ELSE IF n = 1 THEN <<WordLetters[1]>>
    ELSE Words(n - 1) \o <<SP, WordLetters[((n - 1) % Len(WordLetters)) + 1]>>

\* texts of no chunk, one partial chunk, one full chunk, two and three chunks
SummarizeTexts ==
    {<<>>, <<SP, NL>>, Words(1), Words(ChunkTokens), <<NL>> \o Words(ChunkTokens + 1),
     Words(2 * ChunkTokens + 1)}

\* partial summaries around the sentence-length threshold of line 139
Summaries ==
    { Sentence(MinSentenceLen - 1),
      Sentence(MinSentenceLen),
      Sentence(MinSentenceLen + 1),
      <<"b", "!">>,
      <<"b", "?", SP, SP>> \o Sentence(MinSentenceLen + 1),
      Sentence(MinSentenceLen) \o <<NL, "b", ".">>,
      <<NL>> \o Sentence(MinSentenceLen) }

SummarizerOutcomes == {Ok(v) : v \in Summaries} \cup {Raises(e) : e \in Exceptions}

Transcripts == {<<>>, <<"t">>, <<"t", SP, "u", SP, "v">>}

WhisperOutcomes == {Ok(v) : v \in Transcripts} \cup {Raises(e) : e \in Exceptions}

AudioPath == <<"w">>

SummarizeInit ==
    /\ \E summarizerLoads \in BOOLEAN, whisperLoads \in BOOLEAN :
          LET m == load_models(summarizerLoads, whisperLoads)
          IN  /\ summarizer = m.summarizer
              /\ whisper_model = m.whisper_model
    /\ MAIL_SENDER_EMAIL = None
    /\ MAIL_SENDER_PASS = None
    /\ pc \in {"summarize_text", "transcribe_audio"}
    /\ s_text \in (IF pc = "summarize_text" THEN SummarizeTexts ELSE {<<>>})
    /\ bullet_style \in (IF pc = "summarize_text" THEN BOOLEAN ELSE {FALSE})
    /\ text_chunks = <<>>
    /\ summary_chunks = <<>>
    /\ calls = <<>>
    /\ ret = NoRet
    /\ text = <<>> /\ max_tokens = 1 /\ chunks = <<>> /\ chunk_pc = "off"
    /\ ParkedPage

\* transcribe_audio called on its own
TranscribeCall ==
    /\ pc = "transcribe_audio"
    /\ \E out \in WhisperOutcomes :
          LET r == transcribe_audio(AudioPath, out)
          IN  /\ ret' = r.ret
              /\ calls' = calls \o r.calls
    /\ pc' = "transcribe_returned"
    /\ UNCHANGED <<s_text, bullet_style, text_chunks, summary_chunks>>
    /\ UNCHANGED <<chunkVars, moduleVars, pageVars>>

SummarizeNext ==
    \/ SummarizeEnter
    \/ SummarizerCall(SummarizerOutcomes)
    \/ SummarizeReturn
    \/ TranscribeCall

SummarizeSpec == SummarizeInit /\ [][SummarizeNext]_vars

(***************************************************************************)
(* Reference notions the summarisation claims are stated with.  They are   *)
(* written over positions of the text, not as the scans above.             *)
(***************************************************************************)
SetMin(S) == CHOOSE x \in S : \A y \in S : x <= y
SetMax(S) == CHOOSE x \in S : \A y \in S : x >= y

\* some external call of the current invocation raised
FailedCall == \E k \in 1..Len(calls) : calls[k].out.kind = "raise"

\* what the summarizer returned, call by call (successful calls only)
Partials ==
    LET good == SelectSeq(calls, LAMBDA c : c.model = "summarizer" /\ c.out.kind = "ok")
    IN  [k \in 1..Len(good) |-> good[k].out.value]

\* parts joined with sep, built from the right
RECURSIVE RefJoin(_, _)
RefJoin(sep, parts) ==
    LET n == Len(parts)
    IN  IF n = 0 THEN <<>>
        ELSE IF n = 1 THEN parts[1]
        ELSE RefJoin(sep, SubSeq(parts, 1, n - 1)) \o sep \o parts[n]

HasMarker(s) == Len(s) >= Len(ErrorMarker) /\ SubSeq(s, 1, Len(ErrorMarker)) = ErrorMarker

\* the k-th chunk of t, by word positions
ChunkCount(t) == (Len(split(t)) + ChunkTokens - 1) \div ChunkTokens
ExpectedChunk(t, k) ==
    LET w == split(t)
        hi == IF k * ChunkTokens < Len(w) THEN k * ChunkTokens ELSE Len(w)
    IN  RefJoin(<<SP>>, SubSeq(w, (k - 1) * ChunkTokens + 1, hi))

\* the text without its leading and trailing whitespace
Trim(s) ==
    LET solid == {i \in 1..Len(s) : s[i] \notin Whitespace}
    IN  IF solid = {} THEN <<>> ELSE SubSeq(s, SetMin(solid), SetMax(solid))

\* positions of c inside a delimiter: a character of `gap` reached from a
\* terminator through characters of `gap` only
Delimiters(c, gap) ==
    {i \in 1..Len(c) :
        /\ c[i] \in gap
        /\ \E j \in 1..(i - 1) :
              /\ c[j] \in Terminators
              /\ \A k \in (j + 1)..i : c[k] \in gap}

\* the sentences of c: the maximal stretches of positions outside delimiters
RECURSIVE SentencesFrom(_, _, _)
SentencesFrom(c, D, starts) ==
    IF starts = {} THEN <<>>
    ELSE LET i == SetMin(starts)
             j == SetMax({e \in i..Len(c) : \A k \in i..e : k \notin D})
         IN  <<SubSeq(c, i, j)>> \o SentencesFrom(c, D, starts \ {i})

RefSentences(c, gap) ==
    LET D == Delimiters(c, gap)
    IN  SentencesFrom(c, D,
            {i \in 1..Len(c) : i \notin D /\ (i = 1 \/ (i - 1) \in D)})

\* one bullet line per sentence of c whose trimmed length is at least minLen
RefBullets(c, gap, minLen) ==
    LET kept == SelectSeq(RefSentences(c, gap), LAMBDA x : Len(Trim(x)) >= minLen)
    IN  RefJoin(<<NL>>, [k \in 1..Len(kept) |-> <<Bullet, SP>> \o Trim(kept[k])])

SummarizeSucceeded == pc = "summarize_returned" /\ summarizer /\ ~FailedCall

\* C3: with the models loaded and no failing call, the summarizer is called
\* exactly once per chunk of the text, in chunk order: the k-th call receives
\* the k-th chunk, and when summarize_text returns every chunk was passed.
C3_OneCallPerChunk ==
    (pc \in {"summarize_loop", "summarize_returned"} /\ summarizer /\ ~FailedCall) =>
        /\ Len(calls) <= ChunkCount(s_text)
        /\ \A k \in 1..Len(calls) :
              /\ calls[k].model = "summarizer"
              /\ calls[k].arg = ExpectedChunk(s_text, k)
        /\ (pc = "summarize_returned" => Len(calls) = ChunkCount(s_text))

\* C3 witness: a text of three chunks was summarised, chunk after chunk.
C3_Witness ==
    /\ SummarizeSucceeded
    /\ Len(calls) = 3
    /\ Cardinality({calls[k].arg : k \in 1..3}) = 3

C4_WitnessEmpty ==
    /\ SummarizeSucceeded /\ ~bullet_style
    /\ Partials = <<>>
    /\ ret = Return(<<>>)

\* C5 as claimed: with bullet_style true the combined summary is split at
\* '.', '!' or '?' followed by whitespace, and the output holds one bullet
\* line per sentence whose trimmed length is not below 20, in order.
C5_BulletsAsClaimed ==
    (SummarizeSucceeded /\ bullet_style) =>
        ret = Return(RefBullets(RefJoin(<<SP>>, Partials), Whitespace,
                                MinSentenceLen))

\* C5, the splitting rule alone as claimed (any whitespace after the
\* terminator), with the length filter of the code.
C5_SplitAtAnyWhitespace ==
    (SummarizeSucceeded /\ bullet_style) =>
        ret = Return(RefBullets(RefJoin(<<SP>>, Partials), Whitespace,
                                MinSentenceLen + 1))

\* C5 amended: with bullet_style true the combined summary is split at '.',
\* '!' or '?' followed by one or more space characters, and the output holds
\* one bullet line (marker, space, trimmed sentence) per sentence whose
\* trimmed length exceeds 20, in order: a sentence is dropped if and only if
\* its trimmed length is at most 20.
C5_Bullets ==
    (SummarizeSucceeded /\ bullet_style) =>
        ret = Return(RefBullets(RefJoin(<<SP>>, Partials), {SP},
                                MinSentenceLen + 1))

\* C5 witness: a sentence of exactly 20 characters was dropped and one of 21
\* characters was kept as a bullet line.
C5_Witness ==
    /\ SummarizeSucceeded /\ bullet_style
    /\ Len(Partials) = 2
    /\ Partials[1] = Sentence(MinSentenceLen)
    /\ Partials[2] = Sentence(MinSentenceLen + 1)
    /\ ret = Return(<<Bullet, SP>> \o Sentence(MinSentenceLen + 1))

\* C6: summarize_text and transcribe_audio never raise: without the model
\* they make no external call and return a string starting with "[ERROR:",
\* and when an external call fails they return a string starting with
\* "[ERROR:", whatever number of chunks was summarised before.
C6_NeverRaises ==
    (pc \in {"summarize_returned", "transcribe_returned"}) =>
        /\ ret.kind = "return"
        /\ ((pc = "summarize_returned" /\ ~summarizer) =>
               (calls = <<>> /\ HasMarker(ret.value)))
        /\ ((pc = "transcribe_returned" /\ ~whisper_model) =>
               (calls = <<>> /\ HasMarker(ret.value)))
        /\ (FailedCall => HasMarker(ret.value))

\* C6 witness: the summarizer failed on the third chunk, after two chunks
\* had been summarised.
C6_Witness ==
    /\ pc = "summarize_returned"
    /\ Len(calls) = 3
    /\ calls[3].out.kind = "raise"
    /\ Len(summary_chunks) = 2

\* C6, the other cases: the transcription failed; the models are not loaded.
C6_WitnessTranscribe ==
    /\ pc = "transcribe_returned"
    /\ FailedCall

C6_WitnessNotLoaded ==
    /\ pc \in {"summarize_returned", "transcribe_returned"}
    /\ ~summarizer /\ ~whisper_model

(***************************************************************************)
(* The page (src/ai.py:19-25, 59-80, 144-278): helper functions.           *)
(***************************************************************************)
SecretKeys == {"MAIL_SENDER_EMAIL", "MAIL_SENDER_PASS"}

\* lines 19-25: a KeyError on either key leaves both credentials None
load_credentials(store) ==
    IF SecretKeys \subseteq store
    THEN [email |-> "sender", pass |-> "password"]
    ELSE [email |-> None, pass |-> None]

\* the uploads: one decodable clip, one file pydub cannot decode
ValidAudio == {"clip.wav"}
Files == ValidAudio \cup {"broken.mp3"}

\* lines 59-80, for the directory d that tempfile.mkdtemp creates: the
\* directory exists from line 63 on; if writing or converting raises, the
\* function returns (None, None) and the directory stays where it is
save_temp_audio(file, d) ==
    IF file \in ValidAudio
    THEN [temp_file_path |-> AudioPath, temp_dir |-> d, on_disk |-> {d}]
    ELSE [temp_file_path |-> None, temp_dir |-> NoDir, on_disk |-> {d}]

\* lines 180-192 (file removal succeeds)
cleanup_temp_files(onDisk, tempDir) ==
    [dirs |-> IF tempDir # NoDir /\ tempDir \in onDisk
              THEN onDisk \ {tempDir} ELSE onDisk,
     audio_temp_dir |-> NoDir]

\* mutant: the guard of line 146 is forgotten
email_configured_always == TRUE

\* line 146: if not MAIL_SENDER_EMAIL or not MAIL_SENDER_PASS
email_configured == MAIL_SENDER_EMAIL # None /\ MAIL_SENDER_PASS # None

\* what the SMTP transport does with one connection
SmtpOutcomes == {"sent", "connect_fails", "login_fails", "send_fails"}

\* lines 144-165, given what the transport does: the value returned and the
\* connections opened
send_email(recipient, subject, body, transport) ==
    IF ~email_configured
    THEN [ret |-> FALSE, smtp |-> <<>>]
    ELSE [ret |-> (transport = "sent"),
          smtp |-> <<[user |-> MAIL_SENDER_EMAIL, pass |-> MAIL_SENDER_PASS,
                      to |-> recipient, body |-> body,
                      outcome |-> transport]>>]

(***************************************************************************)
(* The page: one script run is RunStart, ProcessAudio, ProcessText,        *)
(* DisplayText (with summarize_text when Generate Summary was clicked),    *)
(* DisplaySummary, EndCleanup.                                             *)
(***************************************************************************)
PastedTexts == {<<>>, <<SP>>, Words(1), Words(ChunkTokens + 1)}

AppSummarizerOutcomes ==
    {Ok(Sentence(MinSentenceLen + 1)), Ok(<<"b", "!">>)} \cup
    {Raises(e) : e \in Exceptions}

Recipient == "recipient"
Subject == "Your Summary"

\* the state once the page was first loaded with empty widgets
Init ==
    /\ \E summarizerLoads \in BOOLEAN, whisperLoads \in BOOLEAN :
          LET m == load_models(summarizerLoads, whisperLoads)
          IN  /\ summarizer = m.summarizer
              /\ whisper_model = m.whisper_model
    /\ secrets \in SUBSET SecretKeys
    /\ MAIL_SENDER_EMAIL = load_credentials(secrets).email
    /\ MAIL_SENDER_PASS = load_credentials(secrets).pass
    /\ pc = "idle"
    /\ s_text = <<>> /\ bullet_style = FALSE
    /\ text_chunks = <<>> /\ summary_chunks = <<>>
    /\ calls = <<>> /\ ret = NoRet
    /\ uploaded_file = None
    /\ text_input = <<>>
    /\ event = None
    /\ transcription = <<>>
    /\ summary = <<>>
    /\ audio_temp_dir = NoDir
    /\ dirs = {}
    /\ made = 0
    /\ shown = {}
    /\ smtp = <<>>
    /\ email_ret = <<>>
    /\ runs = 0
    /\ text = <<>> /\ max_tokens = 1 /\ chunks = <<>> /\ chunk_pc = "off"

\* the user changes one widget or clicks a button the page shows, and the
\* script starts again from the top (lines 19-25 reload the credentials)
RunStart ==
    /\ pc \in {"idle", "aborted"}
    /\ runs < MaxRuns
    /\ \/ /\ event' = "upload"
          /\ uploaded_file' \in (Files \cup {None}) \ {uploaded_file}
          /\ UNCHANGED text_input
       \/ /\ event' = "paste"
          /\ text_input' \in PastedTexts \ {text_input}
          /\ UNCHANGED uploaded_file
       \/ /\ event' \in shown
          /\ UNCHANGED <<uploaded_file, text_input>>
    /\ runs' = runs + 1
    /\ MAIL_SENDER_EMAIL' = load_credentials(secrets).email
    /\ MAIL_SENDER_PASS' = load_credentials(secrets).pass
    /\ shown' = {}
    /\ calls' = <<>> /\ smtp' = <<>> /\ email_ret' = <<>> /\ ret' = NoRet
    /\ pc' = "process_audio"
    /\ UNCHANGED <<summarizer, whisper_model, secrets, transcription, summary,
                   audio_temp_dir, dirs, made>>
    /\ UNCHANGED <<s_text, bullet_style, text_chunks, summary_chunks>>
    /\ UNCHANGED chunkVars

\* lines 203-220
ProcessAudio ==
    /\ pc = "process_audio"
    /\ IF uploaded_file = None
       THEN /\ pc' = "process_text"
            /\ UNCHANGED <<audio_temp_dir, dirs, made, shown, transcription,
                           summary, calls>>
       ELSE LET c == cleanup_temp_files(dirs, audio_temp_dir)
                saved == save_temp_audio(uploaded_file, made + 1)
            IN  /\ made' = made + 1
                /\ dirs' = c.dirs \cup saved.on_disk
                /\ IF saved.temp_file_path # None /\ saved.temp_dir # NoDir
                   THEN /\ audio_temp_dir' = saved.temp_dir
                        /\ shown' = shown \cup {"Transcribe Audio"}
                        /\ IF event = "Transcribe Audio"
                           THEN \E out \in WhisperOutcomes :
                                   LET r == transcribe_audio(saved.temp_file_path, out)
                                   IN  /\ calls' = calls \o r.calls
                                       /\ IF r.ret.kind = "raise"
                                          THEN /\ pc' = "aborted"
                                               /\ UNCHANGED <<transcription, summary>>
                                          ELSE /\ transcription' = r.ret.value
                                               /\ summary' = <<>>
                                               /\ pc' = "process_text"
                           ELSE /\ pc' = "process_text"
                                /\ UNCHANGED <<transcription, summary, calls>>
                   ELSE /\ audio_temp_dir' = c.audio_temp_dir
                        /\ pc' = "process_text"
                        /\ UNCHANGED <<shown, transcription, summary, calls>>
    /\ UNCHANGED <<secrets, uploaded_file, text_input, event, smtp, email_ret, runs>>
    /\ UNCHANGED <<s_text, bullet_style, text_chunks, summary_chunks, ret>>
    /\ UNCHANGED <<chunkVars, moduleVars>>

\* mutant: the reset of line 231 is forgotten
text_submission_keeps_summary(pasted, oldSummary) ==
    [transcription |-> pasted, summary |-> oldSummary]

\* lines 230-231: the pasted text becomes the transcription, the summary is
\* reset
text_submission(pasted, oldSummary) ==
    [transcription |-> pasted, summary |-> <<>>]

\* lines 226-231
ProcessText ==
    /\ pc = "process_text"
    /\ IF strip(text_input) # <<>>
       THEN LET c == cleanup_temp_files(dirs, audio_temp_dir)
                t == text_submission(text_input, summary)
            IN  /\ dirs' = c.dirs
                /\ audio_temp_dir' = c.audio_temp_dir
                /\ transcription' = t.transcription
                /\ summary' = t.summary
       ELSE UNCHANGED <<dirs, audio_temp_dir, transcription, summary>>
    /\ pc' = "display_text"
    /\ UNCHANGED <<secrets, uploaded_file, text_input, event, made, shown,
                   smtp, email_ret, runs>>
    /\ UNCHANGED <<s_text, bullet_style, text_chunks, summary_chunks, calls, ret>>
    /\ UNCHANGED <<chunkVars, moduleVars>>

\* lines 236-252: the text and the summary options are shown; a click on
\* Generate Summary calls summarize_text on the session's transcription
DisplayText ==
    /\ pc = "display_text"
    /\ IF transcription # <<>>
       THEN /\ shown' = shown \cup {"Generate Summary"}
            /\ IF event = "Generate Summary"
               THEN /\ s_text' = transcription
                    /\ bullet_style' \in BOOLEAN
                    /\ pc' = "summarize_text"
               ELSE /\ pc' = "display_summary"
                    /\ UNCHANGED <<s_text, bullet_style>>
       ELSE /\ pc' = "display_summary"
            /\ UNCHANGED <<shown, s_text, bullet_style>>
    /\ UNCHANGED <<secrets, uploaded_file, text_input, event, transcription,
                   summary, audio_temp_dir, dirs, made, smtp, email_ret, runs>>
    /\ UNCHANGED <<text_chunks, summary_chunks, calls, ret>>
    /\ UNCHANGED <<chunkVars, moduleVars>>

\* line 247: st.session_state.summary = summarize_text(...)
StoreSummary ==
    /\ pc = "summarize_returned"
    /\ IF ret.kind = "raise"
       THEN pc' = "aborted" /\ UNCHANGED summary
       ELSE pc' = "display_summary" /\ summary' = ret.value
    /\ UNCHANGED <<secrets, uploaded_file, text_input, event, transcription,
                   audio_temp_dir, dirs, made, shown, smtp, email_ret, runs>>
    /\ UNCHANGED <<s_text, bullet_style, text_chunks, summary_chunks, calls, ret>>
    /\ UNCHANGED <<chunkVars, moduleVars>>

\* lines 258-272
DisplaySummary ==
    /\ pc = "display_summary"
    /\ IF summary # <<>>
       THEN /\ shown' = shown \cup {"Send Email"}
            /\ IF event = "Send Email"
               THEN \E transport \in SmtpOutcomes :
                       LET r == send_email(Recipient, Subject, summary, transport)
                       IN  /\ email_ret' = Append(email_ret, r.ret)
                           /\ smtp' = smtp \o r.smtp
               ELSE UNCHANGED <<email_ret, smtp>>
       ELSE UNCHANGED <<shown, email_ret, smtp>>
    /\ pc' = "end_cleanup"
    /\ UNCHANGED <<secrets, uploaded_file, text_input, event, transcription,
                   summary, audio_temp_dir, dirs, made, runs>>
    /\ UNCHANGED <<frameVars_but_pc, chunkVars, moduleVars>>

\* lines 275-278
EndCleanup ==
    /\ pc = "end_cleanup"
    /\ IF audio_temp_dir # NoDir
       THEN /\ dirs' = dirs \ {audio_temp_dir}
            /\ audio_temp_dir' = NoDir
       ELSE UNCHANGED <<dirs, audio_temp_dir>>
    /\ pc' = "idle"
    /\ UNCHANGED <<secrets, uploaded_file, text_input, event, transcription,
                   summary, made, shown, smtp, email_ret, runs>>
    /\ UNCHANGED <<frameVars_but_pc, chunkVars, moduleVars>>

Next ==
    \/ RunStart
    \/ ProcessAudio
    \/ ProcessText
    \/ DisplayText
    \/ SummarizeEnter
    \/ SummarizerCall(AppSummarizerOutcomes)
    \/ SummarizeReturn
    \/ StoreSummary
    \/ DisplaySummary
    \/ EndCleanup

Spec == Init /\ [][Next]_vars

(***************************************************************************)
(* Claims about the page.                                                  *)
(***************************************************************************)
RunEnded == pc = "idle" /\ runs > 0

\* C8: when the sender address or the sender password is missing from the
\* secrets store, the script still runs on, every send_email call returns
\* False and no SMTP connection is opened; and send_email returns True only
\* when a connection handed the message (the summary) to the transport
\* without error.
C8_EmailDisabled ==
    /\ ~(SecretKeys \subseteq secrets) =>
          /\ pc # "aborted"
          /\ smtp = <<>>
          /\ \A k \in 1..Len(email_ret) : email_ret[k] = FALSE
    /\ \A k \in 1..Len(email_ret) :
          email_ret[k] = TRUE =>
              \E j \in 1..Len(smtp) :
                  smtp[j].outcome = "sent" /\ smtp[j].body = summary

\* C8 witness: only the password is missing, a summary was generated, Send
\* Email was submitted and send_email returned False.
C8_Witness ==
    /\ RunEnded
    /\ secrets = {"MAIL_SENDER_EMAIL"}
    /\ event = "Send Email"
    /\ email_ret = <<FALSE>>
    /\ summary # <<>>

\* C8, the other case: with both credentials the message was sent.
C8_WitnessSent ==
    /\ RunEnded
    /\ email_ret = <<TRUE>>

\* C9: at the end of every script run no temporary directory made by
\* save_temp_audio is left on disk, and session_state.audio_temp_dir is None.
C9_NoTempDirLeft ==
    RunEnded => (dirs = {} /\ audio_temp_dir = NoDir)

\* C9, the part the code keeps: at the end of every script run
\* audio_temp_dir is None and the directory of a successful save is gone.
C9_SessionDirCleared ==
    RunEnded => (audio_temp_dir = NoDir /\ (uploaded_file \in ValidAudio => made \notin dirs))

\* a script run the user started without a new submission and without asking
\* for a new summary is under way
RerenderOnly == pc \notin {"idle", "aborted"} /\ event \in {"upload", "Send Email"}

\* C10: a stored non-empty summary survives every later script run that
\* brings no new submission (no step of such a run changes it), so a Send
\* Email submit finds the form rendered and calls send_email once.
C10_SummaryPersists ==
    /\ [][(RerenderOnly /\ summary # <<>>) => summary' = summary]_vars
    /\ []((RunEnded /\ event = "Send Email") =>
             ("Send Email" \in shown /\ Len(email_ret) = 1))

\* C10, the part the code keeps: while the pasted-text box is blank, no step
\* of such a run changes a stored summary (the transcription flow).
C10_PersistsWhileTextBlank ==
    [][(RerenderOnly /\ summary # <<>> /\ strip(text_input) = <<>>)
          => summary' = summary]_vars

\* C11: at the end of every script run in which the pasted-text box is not
\* blank, session_state.transcription is the pasted text (also when an audio
\* file is uploaded and Transcribe Audio was clicked in that run), and
\* session_state.summary is empty or what a Generate Summary click of that
\* same run got from summarize_text on the pasted text.
C11_PastedTextWins ==
    (RunEnded /\ strip(text_input) # <<>>) =>
        /\ transcription = text_input
        /\ \/ summary = <<>>
           \/ /\ event = "Generate Summary"
              /\ s_text = text_input
              /\ ret = Return(summary)
              /\ \A k \in 1..Len(calls) :
                    /\ calls[k].model = "summarizer"
                    /\ calls[k].arg = ExpectedChunk(text_input, k)

\* C11 witness: with a pasted text and an uploaded clip, Transcribe Audio was
\* clicked, whisper returned a transcript, and the pasted text replaced it.
C11_Witness ==
    /\ RunEnded
    /\ strip(text_input) # <<>>
    /\ uploaded_file \in ValidAudio
    /\ event = "Transcribe Audio"
    /\ Len(calls) = 1
    /\ calls[1].model = "whisper"
    /\ calls[1].out.kind = "ok"
    /\ calls[1].out.value # <<>>
    /\ transcription = text_input

\* C11, the other case: Generate Summary was clicked on a pasted text and its
\* non-empty summary is in session state at the end of the run.
C11_WitnessGenerated ==
    /\ RunEnded
    /\ strip(text_input) # <<>>
    /\ event = "Generate Summary"
    /\ summary # <<>>
    /\ Len(calls) = 2

====
